---- MODULE Spec2Model ----
(***************************************************************************)
(* Model of the App component (purchaser search over a refreshed CSV       *)
(* export): the React state of App, the fetchData cycle (fetch, body read, *)
(* Papa.parse, dataset swap, re-run of the search) and handleSearch.       *)
(*                                                                         *)
(* Strings that the code processes (the search input, the cells of the     *)
(* payload) are sequences of one-character strings, so that toLowerCase,   *)
(* trim and includes are computed character by character.                  *)
(***************************************************************************)
EXTENDS Integers, Sequences, FiniteSets, TLC

(***************************************************************************)
(* Bounds of the model.                                                    *)
(***************************************************************************)
MaxRows == 2
MaxTime == 1
MaxCalls == 2
MaxQueryTermLen == 2
MaxQueryEmailLen == 1

(***************************************************************************)
(* Strings.                                                                *)
(***************************************************************************)
UpperCaseLetters ==
    <<"A","B","C","D","E","F","G","H","I","J","K","L","M",
      "N","O","P","Q","R","S","T","U","V","W","X","Y","Z">>

LowerCaseLetters ==
    <<"a","b","c","d","e","f","g","h","i","j","k","l","m",
      "n","o","p","q","r","s","t","u","v","w","x","y","z">>

WhiteSpace == {" ", "\t", "\n", "\r"}

LowerChar(c) ==
    IF \E i \in 1..26 : UpperCaseLetters[i] = c
    THEN LowerCaseLetters[CHOOSE i \in 1..26 : UpperCaseLetters[i] = c]
    ELSE c

\* String.prototype.toLowerCase
ToLowerCase(s) == [i \in 1..Len(s) |-> LowerChar(s[i])]

\* String.prototype.trim
Trim(s) ==
    LET keep == {i \in 1..Len(s) : s[i] \notin WhiteSpace}
    IN  IF keep = {} THEN <<>>
        ELSE LET first == CHOOSE i \in keep : \A j \in keep : i <= j
                 last  == CHOOSE i \in keep : \A j \in keep : j <= i
             IN  SubSeq(s, first, last)

\* String.prototype.includes
Includes(s, t) ==
    \E i \in 0..(Len(s) - Len(t)) : SubSeq(s, i + 1, i + Len(t)) = t

\* All strings over the alphabet cs of length at most n.
StringsUpTo(cs, n) == UNION {[1..k -> cs] : k \in 0..n}

\* All sequences over the set S of length at most n.
SeqsUpTo(S, n) == UNION {[1..k -> S] : k \in 0..n}

(***************************************************************************)
(* Records and the parser.                                                 *)
(***************************************************************************)
NomeComprador == "Nome Comprador"
EmailComprador == "E-mail Comprador"

\* The header row of the payload (the two columns the component reads).
Header == <<NomeComprador, EmailComprador>>

Min(a, b) == IF a <= b THEN a ELSE b

\* RowToRecord, but the fields a short row lacks are set to the empty string.
RowToRecordPadded(header, row) ==
    [f \in {header[i] : i \in 1..Len(header)} |->
        LET i == CHOOSE j \in 1..Len(header) : header[j] = f
        IN  IF i <= Len(row) THEN row[i] ELSE <<>>]

\* One data row under header: true. A row shorter than the header yields an
\* object that lacks the missing fields.
RowToRecord(header, row) ==
    LET n == Min(Len(header), Len(row))
    IN  [f \in {header[i] : i \in 1..n} |->
            row[CHOOSE i \in 1..n : header[i] = f]]

\* skipEmptyLines: true
IsEmptyLine(row) == Len(row) = 1 /\ row[1] = <<>>

RECURSIVE ParseRows(_, _)
ParseRows(header, rows) ==
    IF rows = <<>> THEN <<>>
    ELSE IF IsEmptyLine(Head(rows)) THEN ParseRows(header, Tail(rows))
    ELSE <<RowToRecord(header, Head(rows))>> \o ParseRows(header, Tail(rows))

\* Papa.parse(csv, {header: true, delimiter: ';', skipEmptyLines: true}):
\* results.data
PapaParse(csv) == ParseRows(csv.header, csv.rows)

(***************************************************************************)
(* The search.                                                             *)
(***************************************************************************)
\* searchTerm.trim() as a condition
TermIsBlank(t) == Trim(t) = <<>>

\* searchTerm.toLowerCase().trim()
NormalizeTerm(t) == Trim(ToLowerCase(t))

\* Matches, but the e-mail is compared without lower-casing it.
MatchesCaseSensitive(item, term) ==
    /\ EmailComprador \in DOMAIN item
    /\ Includes(item[EmailComprador], term)

\* Matches, but a record without the field is taken as a match.
MatchesAbsentField(item, term) ==
    \/ EmailComprador \notin DOMAIN item
    \/ Includes(ToLowerCase(item[EmailComprador]), term)

\* item["E-mail Comprador"]?.toLowerCase().includes(term)
Matches(item, term) ==
    /\ EmailComprador \in DOMAIN item
    /\ Includes(ToLowerCase(item[EmailComprador]), term)

\* rows.filter(item => ...)
FilterByEmail(rows, term) == SelectSeq(rows, LAMBDA item : Matches(item, term))

(***************************************************************************)
(* Inputs of the environment: what the user types, what the retrieval      *)
(* endpoint answers, what the payload holds.                               *)
(***************************************************************************)
TermChars == {"a", "B", " "}

\* The values the search input takes: empty, blank, a lower-case and an
\* upper-case letter.
Terms == {<<>>, <<" ">>, <<"a">>, <<"B">>}

EmailChars == {"a", "B"}

\* The values the second cell of a row takes.
EmailCells == {<<>>, <<"A">>}

Ana == <<"A", "n", "a">>

Bia == <<"B", "i", "a">>

NameCells == {Ana}

\* The lines of a payload: an empty line, a row with the first cell only,
\* a row with both cells.
LinesOver(names, emails) ==
    {<< <<>> >>} \cup {<<n>> : n \in names}
                 \cup {<<n, e>> : n \in names, e \in emails}

PayloadsOver(lines, n) == [header : {Header}, rows : SeqsUpTo(lines, n)]

Payloads == PayloadsOver(LinesOver(NameCells, EmailCells), MaxRows)

\* The answers of fetch('/api/csv'): status and statusText.
Responses ==
    { [status |-> 200, statusText |-> "OK"],
      [status |-> 500, statusText |-> "Internal Server Error"] }

\* response.ok
Ok(response) == response.status \in 200..299

\* What a rejected fetch or a rejected response.text() throws.
Rejections ==
    { [isError |-> TRUE,  message |-> "Failed to fetch"],
      [isError |-> FALSE, message |-> ""] }

\* What Papa hands to the error callback.
ParseFailures == { [isError |-> TRUE, message |-> "Unable to read payload"] }

(***************************************************************************)
(* State.                                                                  *)
(***************************************************************************)
\* null of `error`, null of `lastUpdated`, and "no term" of the history
\* variables.
Null == "null"

NoDate == -1

NoTerm == <<"none">>

VARIABLES
    data,           \* useState<Transaction[]>([])
    searchTerm,     \* useState('')
    searchResults,  \* useState<Transaction[]>([])
    loading,        \* useState(true)
    error,          \* useState<string | null>(null)
    hasSearched,    \* useState(false)
    lastUpdated,    \* useState<Date | null>(null)
    inflight,       \* the fetchData calls that have not returned: the term
                    \* their closure holds and the await they are at
    nFetch,         \* history: calls of fetch('/api/csv')
    nRefresh,       \* history: clicks of the refresh button that were handled
    nSwap,          \* history: calls of setData
    lastSubmitted,  \* history: the raw term of the last search handleSearch ran
    resultOf,       \* history: the raw term of the filter that set
                    \* searchResults, and the value of nSwap at that moment
    emptyEval       \* history: a filter was evaluated with an empty term

vars == <<data, searchTerm, searchResults, loading, error, hasSearched,
          lastUpdated, inflight, nFetch, nRefresh, nSwap,
          lastSubmitted, resultOf, emptyEval>>

store == <<data, lastUpdated>>

query == <<searchResults, hasSearched, resultOf, emptyEval>>

history == <<nFetch, nRefresh, nSwap>>

Init ==
    /\ data = <<>>
    /\ searchTerm = <<>>
    /\ searchResults = <<>>
    /\ loading = TRUE
    /\ error = Null
    /\ hasSearched = FALSE
    /\ lastUpdated = NoDate
    /\ inflight = <<>>
    /\ nFetch = 0
    /\ nRefresh = 0
    /\ nSwap = 0
    /\ lastSubmitted = NoTerm
    /\ resultOf = [term |-> NoTerm, swap |-> 0]
    /\ emptyEval = FALSE

\* The effect of the first render has run.
Mounted == nFetch > 0

RemoveAt(s, i) == SubSeq(s, 1, i - 1) \o SubSeq(s, i + 1, Len(s))

(***************************************************************************)
(* fetchData.                                                              *)
(***************************************************************************)
\* FetchData, but the error of the previous cycle is not cleared.
FetchDataKeepingError(term) ==
    /\ loading' = TRUE
    /\ inflight' = Append(inflight, [term |-> term, pc |-> "fetch"])
    /\ nFetch' = nFetch + 1
    /\ UNCHANGED <<store, searchTerm, query, nSwap, lastSubmitted, error>>

\* The synchronous head of fetchData, up to the await of fetch. term is the
\* searchTerm of the render whose fetchData is called.
FetchData(term) ==
    /\ loading' = TRUE
    /\ error' = Null
    /\ inflight' = Append(inflight, [term |-> term, pc |-> "fetch"])
    /\ nFetch' = nFetch + 1
    /\ UNCHANGED <<store, searchTerm, query, nSwap, lastSubmitted>>

\* `Failed to fetch CSV file: ${response.status} ${response.statusText}`
StatusError(response) ==
    [isError |-> TRUE,
     message |-> "Failed to fetch CSV file: " \o ToString(response.status)
                 \o " " \o response.statusText]

\* The message the catch block sets.
CatchMessage(err) ==
    IF err.isError THEN err.message \o "." ELSE "An unknown error occurred"

\* Catch, but loading is left set.
CatchKeepingLoading(i, err) ==
    /\ error' = CatchMessage(err)
    /\ loading' = loading
    /\ inflight' = RemoveAt(inflight, i)
    /\ UNCHANGED <<store, searchTerm, query, history, lastSubmitted>>

\* Catch, but the failed call is retried at once.
CatchRetrying(i, err) ==
    /\ error' = CatchMessage(err)
    /\ loading' = TRUE
    /\ inflight' = [inflight EXCEPT ![i].pc = "fetch"]
    /\ nFetch' = nFetch + 1
    /\ UNCHANGED <<store, searchTerm, query, nRefresh, nSwap, lastSubmitted>>

\* Catch, but the failure also drops the loaded dataset and the results.
CatchDroppingStore(i, err) ==
    /\ error' = CatchMessage(err)
    /\ loading' = FALSE
    /\ inflight' = RemoveAt(inflight, i)
    /\ data' = <<>>
    /\ lastUpdated' = NoDate
    /\ searchResults' = <<>>
    /\ UNCHANGED <<searchTerm, hasSearched, resultOf, emptyEval, history,
                   lastSubmitted>>

\* The catch block, for the call at position i.
Catch(i, err) ==
    /\ error' = CatchMessage(err)
    /\ loading' = FALSE
    /\ inflight' = RemoveAt(inflight, i)
    /\ UNCHANGED <<store, searchTerm, query, history, lastSubmitted>>

\* useEffect(() => { fetchData(); }, []): the fetchData of the first render.
Mount ==
    /\ ~Mounted
    /\ FetchData(<<>>)
    /\ UNCHANGED nRefresh

\* RefreshDisabled, but the button is never disabled.
RefreshNeverDisabled == FALSE

\* disabled={loading} of the refresh button
RefreshDisabled == loading

\* onClick={fetchData}: the fetchData of the current render.
ClickRefresh ==
    /\ Mounted
    /\ ~RefreshDisabled
    /\ nFetch < MaxCalls
    /\ FetchData(searchTerm)
    /\ nRefresh' = nRefresh + 1

\* fetch rejects.
FetchRejected ==
    \E i \in 1..Len(inflight), err \in Rejections :
        /\ inflight[i].pc = "fetch"
        /\ Catch(i, err)

\* fetch resolves: a non-ok response throws, an ok one goes on to
\* response.text().
FetchResolvedFrom(responses) ==
    \E i \in 1..Len(inflight), response \in responses :
        /\ inflight[i].pc = "fetch"
        /\ IF ~Ok(response)
           THEN Catch(i, StatusError(response))
           ELSE /\ inflight' = [inflight EXCEPT ![i].pc = "text"]
                /\ UNCHANGED <<store, searchTerm, query, loading, error,
                               history, lastSubmitted>>

FetchResolved == FetchResolvedFrom(Responses)

\* response.text() rejects.
TextRejected ==
    \E i \in 1..Len(inflight), err \in Rejections :
        /\ inflight[i].pc = "text"
        /\ Catch(i, err)

\* RerunGuard, but the re-run is not guarded.
RerunUnguarded(term) == TRUE

\* What new Date() can read: the clock does not run backwards.
ClockReadings == {t \in 0..MaxTime : t >= lastUpdated}

\* if (searchTerm.trim()) of the complete callback
RerunGuard(term) == ~TermIsBlank(term)

\* Complete, but the re-run reads the input as it is when the cycle ends.
CompleteWithLiveTerm(i, rows, t) ==
    LET term == searchTerm
    IN  /\ data' = rows
        /\ lastUpdated' = t
        /\ loading' = FALSE
        /\ nSwap' = nSwap + 1
        /\ inflight' = RemoveAt(inflight, i)
        /\ IF RerunGuard(term)
           THEN /\ searchResults' = FilterByEmail(rows, NormalizeTerm(term))
                /\ resultOf' = [term |-> term, swap |-> nSwap + 1]
                /\ emptyEval' = (emptyEval \/ NormalizeTerm(term) = <<>>)
           ELSE UNCHANGED <<searchResults, resultOf, emptyEval>>
        /\ UNCHANGED <<searchTerm, error, hasSearched, nFetch, nRefresh,
                       lastSubmitted>>

\* Complete, but the timestamp is not set.
CompleteKeepingTimestamp(i, rows, t) ==
    LET term == inflight[i].term
    IN  /\ data' = rows
        /\ loading' = FALSE
        /\ nSwap' = nSwap + 1
        /\ inflight' = RemoveAt(inflight, i)
        /\ IF RerunGuard(term)
           THEN /\ searchResults' = FilterByEmail(rows, NormalizeTerm(term))
                /\ resultOf' = [term |-> term, swap |-> nSwap + 1]
                /\ emptyEval' = (emptyEval \/ NormalizeTerm(term) = <<>>)
           ELSE UNCHANGED <<searchResults, resultOf, emptyEval>>
        /\ UNCHANGED <<lastUpdated, searchTerm, error, hasSearched, nFetch,
                       nRefresh, lastSubmitted>>

\* Complete, but the parsed rows are added to the rows already loaded.
CompleteAppending(i, rows, t) ==
    LET term == inflight[i].term
    IN  /\ data' = data \o rows
        /\ lastUpdated' = t
        /\ loading' = FALSE
        /\ nSwap' = nSwap + 1
        /\ inflight' = RemoveAt(inflight, i)
        /\ IF RerunGuard(term)
           THEN /\ searchResults'
                    = FilterByEmail(data \o rows, NormalizeTerm(term))
                /\ resultOf' = [term |-> term, swap |-> nSwap + 1]
                /\ emptyEval' = (emptyEval \/ NormalizeTerm(term) = <<>>)
           ELSE UNCHANGED <<searchResults, resultOf, emptyEval>>
        /\ UNCHANGED <<searchTerm, error, hasSearched, nFetch, nRefresh,
                       lastSubmitted>>

\* Complete, but a payload without data rows is reported as an error and
\* is not loaded.
CompleteRejectingNoRows(i, rows, t) ==
    IF rows = <<>>
    THEN /\ error' = "No data"
         /\ loading' = FALSE
         /\ inflight' = RemoveAt(inflight, i)
         /\ nSwap' = nSwap + 1
         /\ UNCHANGED <<store, searchTerm, query, nFetch, nRefresh,
                        lastSubmitted>>
    ELSE /\ data' = rows
         /\ lastUpdated' = t
         /\ loading' = FALSE
         /\ nSwap' = nSwap + 1
         /\ inflight' = RemoveAt(inflight, i)
         /\ IF RerunGuard(inflight[i].term)
            THEN /\ searchResults'
                     = FilterByEmail(rows, NormalizeTerm(inflight[i].term))
                 /\ resultOf' = [term |-> inflight[i].term, swap |-> nSwap + 1]
                 /\ emptyEval' = emptyEval
            ELSE UNCHANGED <<searchResults, resultOf, emptyEval>>
         /\ UNCHANGED <<searchTerm, error, hasSearched, nFetch, nRefresh,
                        lastSubmitted>>

\* The complete callback of Papa.parse, for the call at position i; t is
\* the reading of the clock by new Date().
Complete(i, rows, t) ==
    LET term == inflight[i].term
    IN  /\ data' = rows
        /\ lastUpdated' = t
        /\ loading' = FALSE
        /\ nSwap' = nSwap + 1
        /\ inflight' = RemoveAt(inflight, i)
        /\ IF RerunGuard(term)
           THEN /\ searchResults' = FilterByEmail(rows, NormalizeTerm(term))
                /\ resultOf' = [term |-> term, swap |-> nSwap + 1]
                /\ emptyEval' = (emptyEval \/ NormalizeTerm(term) = <<>>)
           ELSE UNCHANGED <<searchResults, resultOf, emptyEval>>
        /\ UNCHANGED <<searchTerm, error, hasSearched, nFetch, nRefresh,
                       lastSubmitted>>

\* response.text() resolves and Papa.parse calls complete.
ParseCompleteFrom(payloads) ==
    \E i \in 1..Len(inflight), csv \in payloads, t \in ClockReadings :
        /\ inflight[i].pc = "text"
        /\ Complete(i, PapaParse(csv), t)

ParseComplete == ParseCompleteFrom(Payloads)

\* ParseErrorCallback, but loading is left set.
ParseErrorKeepingLoading(i, err) ==
    /\ error' = "CSV Parsing Error: " \o err.message
    /\ loading' = loading
    /\ inflight' = RemoveAt(inflight, i)
    /\ UNCHANGED <<store, searchTerm, query, history, lastSubmitted>>

\* ParseErrorCallback, but the failed parse also empties the dataset.
ParseErrorEmptyingData(i, err) ==
    /\ error' = "CSV Parsing Error: " \o err.message
    /\ loading' = FALSE
    /\ inflight' = RemoveAt(inflight, i)
    /\ data' = <<>>
    /\ UNCHANGED <<lastUpdated, searchTerm, query, history, lastSubmitted>>

\* The error callback of Papa.parse, for the call at position i.
ParseErrorCallback(i, err) ==
    /\ error' = "CSV Parsing Error: " \o err.message
    /\ loading' = FALSE
    /\ inflight' = RemoveAt(inflight, i)
    /\ UNCHANGED <<store, searchTerm, query, history, lastSubmitted>>

\* response.text() resolves and Papa.parse calls error.
ParseError ==
    \E i \in 1..Len(inflight), err \in ParseFailures :
        /\ inflight[i].pc = "text"
        /\ ParseErrorCallback(i, err)

(***************************************************************************)
(* The search form.                                                        *)
(***************************************************************************)
\* onChange={(e) => setSearchTerm(e.target.value)}
OnChangeFrom(terms) ==
    \E t \in terms :
        /\ Mounted
        /\ t # searchTerm
        /\ searchTerm' = t
        /\ UNCHANGED <<store, query, loading, error, inflight, history,
                       lastSubmitted>>

OnChange == OnChangeFrom(Terms)

\* disabled={loading || !searchTerm.trim()} of the submit button
SubmitDisabled == loading \/ TermIsBlank(searchTerm)

\* HandleSearchBody, but the dataset is narrowed to the matching records.
HandleSearchNarrowingData ==
    IF TermIsBlank(searchTerm)
    THEN UNCHANGED vars
    ELSE LET term == NormalizeTerm(searchTerm)
         IN  /\ hasSearched' = TRUE
             /\ searchResults' = FilterByEmail(data, term)
             /\ data' = FilterByEmail(data, term)
             /\ lastSubmitted' = searchTerm
             /\ resultOf' = [term |-> searchTerm, swap |-> nSwap]
             /\ emptyEval' = (emptyEval \/ term = <<>>)
             /\ UNCHANGED <<lastUpdated, searchTerm, loading, error, inflight, history>>

\* handleSearch
HandleSearchBody ==
    IF TermIsBlank(searchTerm)
    THEN UNCHANGED vars
    ELSE LET term == NormalizeTerm(searchTerm)
         IN  /\ hasSearched' = TRUE
             /\ searchResults' = FilterByEmail(data, term)
             /\ lastSubmitted' = searchTerm
             /\ resultOf' = [term |-> searchTerm, swap |-> nSwap]
             /\ emptyEval' = (emptyEval \/ term = <<>>)
             /\ UNCHANGED <<store, searchTerm, loading, error, inflight,
                            history>>

\* onSubmit={handleSearch}: the form is submitted through its submit button.
HandleSearch ==
    /\ Mounted
    /\ ~SubmitDisabled
    /\ HandleSearchBody

Next ==
    \/ Mount
    \/ ClickRefresh
    \/ FetchRejected
    \/ FetchResolved
    \/ TextRejected
    \/ ParseComplete
    \/ ParseError
    \/ OnChange
    \/ HandleSearch

Spec == Init /\ [][Next]_vars

(***************************************************************************)
(* The search over a wider range of datasets and terms: the component      *)
(* with a dataset loaded and a term in the input, searched and refreshed.  *)
(***************************************************************************)
AnaEmail == <<"a", "n", "a", "@", "x", ".", "c", "o", "m">>

BiaEmail == <<"b", "i", "a", "@", "x", ".", "c", "o", "m">>

\* 'ANA@X.COM'
ExampleTerm == <<"A", "N", "A", "@", "X", ".", "C", "O", "M">>

\* Nome Comprador;E-mail Comprador / Ana;ana@x.com / Bia;bia@x.com
ExamplePayload ==
    [header |-> Header, rows |-> << <<Ana, AnaEmail>>, <<Bia, BiaEmail>> >>]

QueryTerms == StringsUpTo(TermChars, MaxQueryTermLen) \cup {ExampleTerm}

QueryLines ==
    LinesOver(NameCells, StringsUpTo(EmailChars, MaxQueryEmailLen))
        \cup {<<Ana, AnaEmail>>, <<Bia, BiaEmail>>, <<Bia, <<"a", "B", "a">>>>}

QueryPayloads == PayloadsOver(QueryLines, MaxRows) \cup {ExamplePayload}

\* An empty payload has been loaded and a term has been typed.
InitQuery ==
    /\ data = <<>>
    /\ searchTerm \in QueryTerms
    /\ searchResults = <<>>
    /\ loading = FALSE
    /\ error = Null
    /\ hasSearched = FALSE
    /\ lastUpdated = 0
    /\ inflight = <<>>
    /\ nFetch = 1
    /\ nRefresh = 0
    /\ nSwap = 1
    /\ lastSubmitted = NoTerm
    /\ resultOf = [term |-> NoTerm, swap |-> 0]
    /\ emptyEval = FALSE

\* One refresh, of any payload, and the searches before and after it.
NextQuery ==
    \/ HandleSearch
    \/ (nRefresh = 0 /\ ClickRefresh)
    \/ FetchResolvedFrom({r \in Responses : Ok(r)})
    \/ ParseCompleteFrom(QueryPayloads)

SpecQuery == InitQuery /\ [][NextQuery]_vars

(***************************************************************************)
(* The component with its cycles followed to their end.                    *)
(***************************************************************************)
\* The payloads and the terms of the runs that are followed to their end:
\* a header with no rows and the example payload; the empty input and 'a'.
LivePayloads == {[header |-> Header, rows |-> <<>>], ExamplePayload}

LiveTerms == {<<>>, <<"a">>}

NextLive ==
    \/ Mount
    \/ ClickRefresh
    \/ FetchRejected
    \/ FetchResolved
    \/ TextRejected
    \/ ParseCompleteFrom(LivePayloads)
    \/ ParseError
    \/ OnChangeFrom(LiveTerms)
    \/ HandleSearch

\* The promise of fetch settles.
FetchSettles == FetchRejected \/ FetchResolved

\* The promise of response.text() settles; Papa.parse of a string calls
\* its callback before it returns.
BodySettles == TextRejected \/ ParseCompleteFrom(LivePayloads) \/ ParseError

\* The component under a runtime that runs the effect of the first render
\* and a retrieval call whose promises settle.
SpecLive ==
    /\ Init
    /\ [][NextLive]_vars
    /\ WF_vars(Mount)
    /\ WF_vars(FetchSettles)
    /\ WF_vars(BodySettles)

(***************************************************************************)
(* The state of the refresh controller, as the component shows it.         *)
(***************************************************************************)
ControllerState ==
    IF loading
    THEN IF \E i \in 1..Len(inflight) : inflight[i].pc = "text"
         THEN "Parsing" ELSE "Fetching"
    ELSE IF error # Null THEN "Failed" ELSE "Idle"

TypeOK ==
    /\ searchTerm \in Terms
    /\ loading \in BOOLEAN
    /\ hasSearched \in BOOLEAN
    /\ Len(inflight) <= MaxCalls
    /\ lastUpdated \in {NoDate} \cup 0..MaxTime

(***************************************************************************)
(* Properties.                                                             *)
(***************************************************************************)
\* C1: when fetch answers with a non-success status, the cycle ends Failed
\* with an error that carries the status code and the status text, and data,
\* lastUpdated and searchResults are unchanged, so that every search gives
\* the result it gave before the refresh.
C1_StatusFailureKeepsStore ==
    [][\A r \in Responses :
         (~Ok(r) /\ FetchResolvedFrom({r})) =>
            /\ ControllerState' = "Failed"
            /\ error' = "Failed to fetch CSV file: " \o ToString(r.status)
                         \o " " \o r.statusText \o "."
            /\ data' = data
            /\ lastUpdated' = lastUpdated
            /\ searchResults' = searchResults
            /\ \A t \in Terms :
                 FilterByEmail(data', NormalizeTerm(t))
                    = FilterByEmail(data, NormalizeTerm(t))]_vars

\* A refresh of a loaded and searched dataset has failed with HTTP 500.
C1_Witness ==
    /\ error = "Failed to fetch CSV file: 500 Internal Server Error."
    /\ ~loading
    /\ nSwap >= 1
    /\ data # <<>>
    /\ hasSearched
    /\ searchResults # <<>>

\* C2: at most one fetchData call is in flight; from the mount on, loading
\* is true exactly while a call is in flight and the refresh button is then
\* disabled, so that no second cycle starts; each dataset replacement is the
\* end of a cycle of its own.
C2_OneCycleInFlight ==
    /\ Len(inflight) <= 1
    /\ Mounted => (loading <=> Len(inflight) = 1)
    /\ Len(inflight) = 1 => RefreshDisabled
    /\ nSwap + Len(inflight) <= nFetch
    /\ nFetch = nRefresh + (IF Mounted THEN 1 ELSE 0)

\* A refresh requested by the user is in flight and the button is disabled.
C2_Witness ==
    /\ nRefresh >= 1
    /\ Len(inflight) = 1
    /\ loading
    /\ RefreshDisabled

\* C3 (as claimed): when a cycle succeeds and a search has been submitted,
\* the displayed result becomes the search of the new dataset for the term
\* of the most recently submitted search.
C3_RerunsLastSubmittedTerm ==
    [][(nSwap' = nSwap + 1 /\ hasSearched) =>
          searchResults' = FilterByEmail(data', NormalizeTerm(lastSubmitted))]_vars

\* C4 (as claimed): whenever the result panel is displayed, the term shown
\* with it is the term whose search produced the displayed results.
C4_ShownTermProducedResults ==
    hasSearched => searchTerm = resultOf.term

\* C5: no filter is ever evaluated with an empty normalized term; a cycle
\* that completes with a blank term in its closure, and a submission with a
\* blank input, leave searchResults and hasSearched unchanged.
C5_NoSearchWithBlankTerm ==
    [][/\ emptyEval' = FALSE
       /\ (nSwap' = nSwap + 1 /\ TermIsBlank(inflight[1].term)) =>
             UNCHANGED <<searchResults, hasSearched>>
       /\ (TermIsBlank(searchTerm) /\ UNCHANGED <<searchTerm, nSwap>>) =>
             UNCHANGED <<searchResults, hasSearched>>]_vars

\* A refresh requested with a blank input has replaced the dataset and has
\* left the results of the earlier search as they were.
C5_Witness ==
    /\ nSwap = 2
    /\ ~loading
    /\ hasSearched
    /\ TermIsBlank(searchTerm)
    /\ searchTerm # <<>>
    /\ searchResults # <<>>
    /\ data = <<>>

\* s contains t as a contiguous substring.
ContainsAt(s, t) ==
    \E k \in 0..(Len(s) - Len(t)) : \A j \in 1..Len(t) : s[k + j] = t[j]

\* The record has a purchaser e-mail that, lower-cased, contains n.
EmailContains(rec, n) ==
    /\ EmailComprador \in DOMAIN rec
    /\ ContainsAt(ToLowerCase(rec[EmailComprador]), n)

\* R lists, in the order of D and with repetitions kept, the records of D
\* whose purchaser e-mail contains n.
IsMatchingSubsequence(R, D, n) ==
    LET I == {i \in 1..Len(D) : EmailContains(D[i], n)}
    IN  /\ Len(R) = Cardinality(I)
        /\ \A i \in I : R[Cardinality({j \in I : j <= i})] = D[i]

\* C6: for a term with a non-empty normalized form, the result of
\* handleSearch and of the re-run after a refresh is the subsequence of the
\* dataset, in row order and without de-duplication, of the records whose
\* purchaser e-mail, lower-cased, contains trim(lowercase(term)); over the
\* rows Ana;ana@x.com and Bia;bia@x.com the term 'ANA@X.COM' yields the one
\* record of Ana.
C6_ResultIsMatchingSubsequence ==
    [][/\ HandleSearch =>
             IsMatchingSubsequence(searchResults', data,
                                   Trim(ToLowerCase(searchTerm)))
       /\ (nSwap' = nSwap + 1 /\ ~TermIsBlank(inflight[1].term)) =>
             IsMatchingSubsequence(searchResults', data',
                                   Trim(ToLowerCase(inflight[1].term)))
       /\ (HandleSearch /\ data = PapaParse(ExamplePayload)
                        /\ searchTerm = ExampleTerm) =>
             /\ Len(searchResults') = 1
             /\ searchResults'[1][NomeComprador] = Ana]_vars

\* 'ANA@X.COM' has been searched over the rows of Ana and Bia, a refresh has
\* loaded the same rows and has re-run the term: the one record of Ana.
C6_Witness ==
    /\ data = PapaParse(ExamplePayload)
    /\ hasSearched
    /\ resultOf = [term |-> ExampleTerm, swap |-> 2]
    /\ nSwap = 2
    /\ Len(searchResults) = 1
    /\ searchResults[1][NomeComprador] = Ana

\* The record lacks the purchaser e-mail, or has the empty string for it.
NoEmail(rec) ==
    \/ EmailComprador \notin DOMAIN rec
    \/ rec[EmailComprador] = <<>>

\* C7: a record whose purchaser e-mail is absent or empty is never in the
\* result, and a search over a dataset that holds such a record completes
\* with the matching records.
C7_NoEmailNeverMatches ==
    [][/\ \A k \in 1..Len(searchResults') : ~NoEmail(searchResults'[k])
       /\ (HandleSearch /\ \E i \in 1..Len(data) : NoEmail(data[i])) =>
             /\ hasSearched'
             /\ error' = error
             /\ Len(searchResults')
                  = Cardinality({i \in 1..Len(data) :
                       EmailContains(data[i], Trim(ToLowerCase(searchTerm)))})]_vars

\* A search over a dataset with a record that lacks the e-mail and a record
\* that matches has returned the matching record.
C7_Witness ==
    /\ hasSearched
    /\ resultOf = [term |-> searchTerm, swap |-> nSwap]
    /\ Len(data) = 2
    /\ EmailComprador \notin DOMAIN data[1]
    /\ Len(searchResults) = 1
    /\ searchResults[1] = data[2]

\* C8: handleSearch changes searchResults and hasSearched only, and leaves
\* data, lastUpdated, loading and error unchanged; submitting the term that
\* produced the displayed result, with no dataset replacement since, yields
\* the same result again.
C8_SearchHasNoSideEffects ==
    [][HandleSearch =>
         /\ UNCHANGED <<data, lastUpdated, loading, error, searchTerm, inflight>>
         /\ resultOf = [term |-> searchTerm, swap |-> nSwap] =>
               searchResults' = searchResults]_vars

\* A search over two matching rows, made while the error of a failed
\* refresh is displayed.
C8_Witness ==
    /\ hasSearched
    /\ resultOf = [term |-> searchTerm, swap |-> nSwap]
    /\ lastSubmitted = searchTerm
    /\ Len(searchResults) = 2
    /\ searchResults = data
    /\ error # Null
    /\ ~loading

\* C9: when the parser calls the error callback, the cycle ends Failed with
\* an error message, and data, lastUpdated and searchResults are unchanged.
C9_ParseFailureKeepsStore ==
    [][ParseError =>
         /\ ControllerState' = "Failed"
         /\ \E err \in ParseFailures :
               error' = "CSV Parsing Error: " \o err.message
         /\ UNCHANGED <<data, lastUpdated, searchResults>>]_vars

\* A refresh of a loaded and searched dataset has ended in a parse error.
C9_Witness ==
    /\ error = "CSV Parsing Error: Unable to read payload"
    /\ ~loading
    /\ data # <<>>
    /\ lastUpdated # NoDate
    /\ hasSearched
    /\ searchResults # <<>>

\* C10: whenever an error is set no call is in flight and the refresh button
\* is enabled; a click on it moves the controller to Fetching and clears
\* the error; a cycle that succeeds sets the dataset to the records of the
\* rows of its payload and the timestamp to the reading of the clock, and
\* ends Idle with no error left.
C10_FailureIsRetryable ==
    [][/\ error' # Null =>
             (~loading' /\ inflight' = <<>> /\ ~RefreshDisabled')
       /\ ClickRefresh =>
             (ControllerState' = "Fetching" /\ error' = Null /\ loading')
       /\ nSwap' = nSwap + 1 =>
             /\ Len(data') <= MaxRows
             /\ \A k \in 1..Len(data') :
                   \E row \in LinesOver(NameCells, EmailCells) :
                       /\ ~IsEmptyLine(row)
                       /\ data'[k] = RowToRecord(Header, row)
             /\ lastUpdated' \in 0..MaxTime
             /\ lastUpdated' >= lastUpdated
             /\ error' = Null
             /\ ControllerState' = "Idle"]_vars

\* The load on mount has failed and the retry has succeeded.
C10_Witness ==
    /\ nFetch = 2
    /\ nRefresh = 1
    /\ nSwap = 1
    /\ ~loading
    /\ error = Null
    /\ lastUpdated # NoDate
    /\ data # <<>>

\* C11: a retrieval request is issued by the effect of the first render
\* and by a handled click on the refresh button, and by nothing else: the
\* requests issued are one more than the handled clicks, and the end of a
\* cycle, failed or successful, starts no request.
C11_FetchOnlyOnRequest ==
    [][/\ nFetch' = nRefresh' + (IF nFetch' > 0 THEN 1 ELSE 0)
       /\ nFetch' # nFetch =>
             /\ nFetch' = nFetch + 1
             /\ (nFetch = 0 /\ nRefresh' = nRefresh)
                  \/ (nFetch > 0 /\ ~loading /\ nRefresh' = nRefresh + 1)
       /\ Len(inflight') < Len(inflight) =>
             /\ nFetch' = nFetch
             /\ inflight' = <<>>
             /\ ~loading']_vars

\* A refresh has failed and nothing has fetched again: the mount and the
\* one click are the two requests.
C11_Witness ==
    /\ nFetch = 2
    /\ nRefresh = 1
    /\ error # Null
    /\ ~loading
    /\ inflight = <<>>

\* Nome Comprador;E-mail Comprador and no data row.
HeaderOnlyPayload == [header |-> Header, rows |-> <<>>]

\* C12: a payload with the header and no data row is loaded as an empty
\* dataset, with the timestamp set and no error; a search of the empty
\* loaded dataset gives the empty result and sets no error.
C12_HeaderOnlyPayloadLoads ==
    [][/\ ParseCompleteFrom({HeaderOnlyPayload}) =>
             /\ data' = <<>>
             /\ lastUpdated' \in 0..MaxTime
             /\ error' = Null
             /\ ControllerState' = "Idle"
       /\ (HandleSearch /\ data = <<>> /\ lastUpdated # NoDate) =>
             /\ searchResults' = <<>>
             /\ hasSearched'
             /\ error' = error]_vars

\* The empty dataset has been loaded in place of a searched one and has been
\* searched in its turn.
C12_Witness ==
    /\ nSwap = 2
    /\ data = <<>>
    /\ lastUpdated # NoDate
    /\ ~loading
    /\ error = Null
    /\ hasSearched
    /\ resultOf = [term |-> searchTerm, swap |-> 2]
    /\ lastSubmitted = searchTerm
    /\ searchResults = <<>>

\* The datasets that the payloads parse to.
ParsedPayloads == {PapaParse(csv) : csv \in Payloads}

\* C13: the dataset changes only in the step that ends a successful cycle,
\* and becomes the parse of one payload, whatever was loaded before; every
\* step that sets the result computes it over one dataset, the one before
\* the step or the one after it, never over records of both.
C13_SearchSeesOneSnapshot ==
    [][/\ data' # data => nSwap' = nSwap + 1
       /\ nSwap' = nSwap + 1 => data' \in ParsedPayloads
       /\ (searchResults' # searchResults \/ resultOf' # resultOf) =>
             LET n == NormalizeTerm(resultOf'.term)
             IN  \/ IsMatchingSubsequence(searchResults', data, n)
                 \/ IsMatchingSubsequence(searchResults', data', n)]_vars

\* A second dataset has replaced the first and a search has run over it:
\* its result is the matching second row of the two rows loaded.
C13_Witness ==
    /\ nSwap = 2
    /\ ~loading
    /\ hasSearched
    /\ resultOf = [term |-> searchTerm, swap |-> 2]
    /\ Len(data) = 2
    /\ Len(searchResults) = 1
    /\ searchResults[1] = data[2]

\* Payloads with a row of one cell, alone, before and after a full row.
ShortRowPayloads ==
    { [header |-> Header, rows |-> << <<Ana>> >>],
      [header |-> Header, rows |-> << <<Ana>>, <<Ana, <<"A">>>> >>],
      [header |-> Header, rows |-> << <<Ana, <<"A">>>>, <<Ana>> >>] }

\* The record of a row of one cell, with and without the missing field.
NameOnlyRecord(n) == (NomeComprador :> n)

FullRecord(n, e) == (NomeComprador :> n) @@ (EmailComprador :> e)

\* The records of the rows, a row of one cell giving short(name).
RecordsOf(rows, short(_)) ==
    [k \in 1..Len(rows) |->
        IF Len(rows[k]) = 1 THEN short(rows[k][1])
        ELSE FullRecord(rows[k][1], rows[k][2])]

EmptyEmailRecord(n) == FullRecord(n, <<>>)

C15_TimestampFollowsDataset ==
    /\ (lastUpdated = NoDate <=> nSwap = 0)
    /\ [][/\ lastUpdated' = NoDate <=> nSwap' = 0
          /\ nSwap' = nSwap + 1 =>
                /\ lastUpdated' \in 0..MaxTime
                /\ lastUpdated' >= lastUpdated
                /\ data' \in ParsedPayloads
                /\ ControllerState' = "Idle"
          /\ nSwap' = nSwap =>
                (lastUpdated' = lastUpdated /\ data' = data)]_vars

\* A dataset has been loaded and searched and a refresh has failed: the
\* timestamp of the load is still there.
C15_Witness ==
    /\ nSwap = 1
    /\ nFetch = 2
    /\ ~loading
    /\ error # Null
    /\ hasSearched
    /\ lastUpdated # NoDate
    /\ data # <<>>

\* C16 (as claimed): whenever no cycle is in flight, every record of the
\* displayed result is a record of the current dataset.
C16_ResultsAreOfCurrentDataset ==
    (~loading /\ hasSearched) =>
        \A k \in 1..Len(searchResults) :
            \E i \in 1..Len(data) : data[i] = searchResults[k]

\* C17: every cycle that starts ends: loading = true leads to
\* loading = false, and the step that ends a cycle is a swap of the dataset
\* with no error set or a failure with an error set, which leaves no call
\* in flight.
C17_CycleEventuallyEnds ==
    /\ loading ~> ~loading
    /\ [][(loading /\ ~loading') =>
            /\ inflight' = <<>>
            /\ \/ nSwap' = nSwap + 1 /\ error' = Null
               \/ nSwap' = nSwap /\ error' # Null /\ ControllerState' = "Failed"]_vars

\* A cycle that ended in a failure was followed by one that ended in a swap.
C17_Witness ==
    /\ nFetch = 2
    /\ nSwap = 1
    /\ ~loading
    /\ error = Null
    /\ inflight = <<>>

\* C18: an error is displayed only while no cycle is in flight; starting a
\* cycle clears the error, and the error is set only by the step that ends
\* the cycle in flight, which started with the error cleared.
C18_ErrorIsOfLastCycle ==
    /\ [](error # Null => (~loading /\ inflight = <<>>))
    /\ [][/\ nFetch' # nFetch => error' = Null
          /\ error' # error =>
                \/ nFetch' = nFetch + 1 /\ error' = Null
                \/ /\ error = Null
                   /\ loading /\ ~loading'
                   /\ Len(inflight) = 1 /\ inflight' = <<>>
                   /\ nFetch' = nFetch
                   /\ nSwap' = nSwap]_vars

\* Two cycles failed; the error displayed is the one of the second.
C18_Witness ==
    /\ error = "An unknown error occurred"
    /\ nFetch = 2
    /\ nSwap = 0
    /\ ~loading

\* C19: a cycle requested by a click holds the content of the input at the
\* click, the cycle of the mount holds the empty term, no step changes the
\* term a cycle in flight holds, and the step that swaps the dataset
\* re-runs the term its cycle holds: the filter of the new dataset by that
\* term if it is not blank, and nothing otherwise, as for the mount cycle.
C19_RerunUsesTermAtRequest ==
    [][/\ nRefresh' = nRefresh + 1 =>
              inflight'[Len(inflight')].term = searchTerm
       /\ (nFetch = 0 /\ nFetch' = 1) => inflight' = <<[term |-> <<>>, pc |-> "fetch"]>>
       /\ Len(inflight') = Len(inflight) =>
              \A i \in 1..Len(inflight) : inflight'[i].term = inflight[i].term
       /\ nSwap' = nSwap + 1 =>
              /\ Len(inflight) = 1
              /\ IF TermIsBlank(inflight[1].term)
                 THEN UNCHANGED <<searchResults, hasSearched>>
                 ELSE searchResults'
                          = FilterByEmail(data', NormalizeTerm(inflight[1].term))
       /\ (nSwap' = nSwap + 1 /\ nRefresh = 0) =>
              /\ inflight[1].term = <<>>
              /\ searchResults' = <<>>
              /\ ~hasSearched']_vars

\* A refresh requested with 'a' in the input has ended and has re-run 'a'
\* over the new dataset; no search was submitted, and the input holds 'B'.
C19_Witness ==
    /\ nSwap = 2
    /\ ~loading
    /\ lastSubmitted = NoTerm
    /\ resultOf = [term |-> <<"a">>, swap |-> 2]
    /\ searchTerm = <<"B">>
    /\ searchResults # <<>>
    /\ searchResults = FilterByEmail(data, <<"a">>)

====
